---------------------------- MODULE Spec2Model ----------------------------
(***************************************************************************)
(* JSON:API Atomic Operations for Django REST framework.                   *)
(*                                                                         *)
(* The model follows a request through AtomicOperationParser.parse_data    *)
(* (parsers.py) and AtomicOperationView.perform_operations (views.py):     *)
(* the document is checked and normalised operation by operation, then the *)
(* parsed operations are walked inside one database transaction, in        *)
(* sequential or in bulk mode.  The response of a committed batch is       *)
(* rendered by AtomicResultRenderer.render (renderers.py).                 *)
(*                                                                         *)
(* JSON values are records with a `kind` member:                           *)
(*   absent (the key is not in the dict), null, scalar, list, obj.         *)
(* An obj carries the members the code reads; a member the JSON object     *)
(* does not have is "" (strings), 0 (ids), <<>> (href) or Absent.  Python  *)
(* treats these exactly like the missing key wherever the code tests them  *)
(* (`if lid:`, `not ref.get("type")`, ...).                                *)
(* An href string is kept as the list of its '/'-separated segments.       *)
(***************************************************************************)
EXTENDS Integers, Sequences, FiniteSets, TLC

\* ------------------------------------------------------------------ consts.py
ATOMIC_OPERATIONS == "atomic:operations"
ATOMIC_RESULTS == "atomic:results"
OP_ADD == "add"
OP_UPDATE == "update"
OP_REMOVE == "remove"
OP_INVOKE == "invoke"
OP_UPDATE_RELATIONSHIP == "update-relationship"
SUPPORTED_OPERATIONS == {OP_ADD, OP_UPDATE, OP_REMOVE, OP_INVOKE}

\* ------------------------------------------------------------------ bounds
\* longest operations list of a request of Spec
MaxOps == 3
\* longest operations list of a request of SpecConc (two requests in flight)
MaxConcOps == 2
\* longest operations list of a request of SpecRuns
MaxRunOps == 3
\* longest operations list of a request of SpecRender
MaxRenderOps == 2
\* most Adds declaring the lid "a" ahead of the operation of a request of SpecSubst
MaxDeclaring == 1
\* longest operations list of a request of SpecSelect
MaxSelectOps == 3
\* longest operations list of a request of SpecStatus
MaxStatusOps == 3
\* longest operations list of a request of SpecInclude
MaxIncludeOps == 2

\* ------------------------------------------------------------------ JSON values
Absent == [kind |-> "absent"]
Null == [kind |-> "null"]
Scalar == [kind |-> "scalar"]
List(items) == [kind |-> "list", items |-> items]

Obj(type, id, lid, relationship, href, attributes, rel) ==
    [kind |-> "obj", type |-> type, id |-> id, lid |-> lid,
     relationship |-> relationship, href |-> href,
     attributes |-> attributes, rel |-> rel, data |-> Absent, meta |-> Absent]

EmptyObj == Obj("", 0, "", "", <<>>, "", Absent)

\* a resource identifier object {type, id?, lid?}
Ident(type, id, lid) == Obj(type, id, lid, "", <<>>, "", Absent)

IsDict(v) == v.kind = "obj"
IsList(v) == v.kind = "list"

\* Python truth value of a JSON value: None, {} and [] are falsy
Truthy(v) ==
    CASE v.kind = "absent" -> FALSE
      [] v.kind = "null" -> FALSE
      [] v.kind = "scalar" -> TRUE
      [] v.kind = "list" -> v.items # <<>>
      [] v.kind = "obj" -> v # EmptyObj
      [] v.kind = "meta" -> v.other \/ v.include.kind # "absent"

\* Python truth value of an href string (None and "" are falsy)
TruthyHref(h) == h # <<>> /\ h # <<"">>

\* the meta member of an operation: an object with an optional include member
\* (and possibly other keys), or something that is no object
Meta(include, other) == [kind |-> "meta", include |-> include, other |-> other]

\* ------------------------------------------------------------------ errors
\* the place a pointer names: the index of an operation, or (parse_operation_metadata)
\* the id or lid of the resource identifier object, or None
PtrIndex(i) == [kind |-> "index", n |-> i, s |-> ""]
PtrId(id) == [kind |-> "id", n |-> id, s |-> ""]
PtrLid(lid) == [kind |-> "lid", n |-> 0, s |-> lid]
PtrNone == [kind |-> "none", n |-> 0, s |-> ""]

\* a pointer "<lead>atomic:operations/<at>/<field>"; lead says whether it starts with '/'
Pointer(lead, at, field) == [lead |-> lead, at |-> at, field |-> field]

NoError == [id |-> "", status |-> 0, pointer |-> Pointer(FALSE, PtrNone, "")]

\* exceptions.py is not part of src/: the status classes are the spec's
\* (400 class for malformed envelopes, 422 for domain violations)
JsonApiParseError(id, pointer) == [id |-> id, status |-> 400, pointer |-> pointer]

MissingPrimaryData(idx) ==
    JsonApiParseError("missing-primary-data", Pointer(TRUE, PtrIndex(idx), "data"))

InvalidPrimaryDataType(idx) ==
    JsonApiParseError("invalid-primary-data-type", Pointer(TRUE, PtrIndex(idx), "data"))

UnprocessableEntity(id, idx, field) ==
    [id |-> id, status |-> 422, pointer |-> Pointer(TRUE, PtrIndex(idx), field)]

\* an exception nothing catches (KeyError, AttributeError, TypeError,
\* ImproperlyConfigured, a handler's validation error is kept apart below)
Unhandled(name, idx) ==
    [id |-> name, status |-> 500, pointer |-> Pointer(FALSE, PtrIndex(idx), "")]

IsError(e) == e.id # ""

\* the first error of a sequence of check results, NoError when there is none
RECURSIVE FirstError(_)
FirstError(es) ==
    IF es = <<>> THEN NoError
    ELSE IF IsError(Head(es)) THEN Head(es)
    ELSE FirstError(Tail(es))

\* ------------------------------------------------------------------ parsers.py
IdPointerField(operation_code) == IF operation_code = "update" THEN "data" ELSE "ref"

\* an identifier check that lets a target with both an id and a lid pass
check_resource_identifier_object_allowing_both(idx, resource_identifier_object, operation_code) ==
    LET resource_id == resource_identifier_object.id # 0
        resource_lid == resource_identifier_object.lid # ""
        at == Pointer(TRUE, PtrIndex(idx), IdPointerField(operation_code))
    IN  IF ~IsDict(resource_identifier_object)
        THEN Unhandled("AttributeError", idx)
        ELSE IF operation_code \in {"update", "remove"} /\ ~(resource_id \/ resource_lid)
        THEN JsonApiParseError("missing-id", at)
        ELSE IF resource_identifier_object.type = ""
        THEN JsonApiParseError("missing-type", at)
        ELSE NoError

check_resource_identifier_object(idx, resource_identifier_object, operation_code) ==
    LET resource_id == resource_identifier_object.id # 0
        resource_lid == resource_identifier_object.lid # ""
        at == Pointer(TRUE, PtrIndex(idx), IdPointerField(operation_code))
    IN  IF ~IsDict(resource_identifier_object)
        THEN Unhandled("AttributeError", idx)
        ELSE IF operation_code \in {"update", "remove"} /\ ~(resource_id \/ resource_lid)
        THEN JsonApiParseError("missing-id", at)
        ELSE IF operation_code \in {"update", "remove"} /\ resource_id /\ resource_lid
        THEN JsonApiParseError("multiple-id-fields", at)
        ELSE IF resource_identifier_object.type = ""
        THEN JsonApiParseError("missing-type", at)
        ELSE NoError

check_add_operation(idx, data) ==
    IF ~IsDict(data) THEN MissingPrimaryData(idx)
    ELSE check_resource_identifier_object(idx, data, "add")

check_relation_update(idx, operation) ==
    LET first == check_resource_identifier_object(idx, operation.ref, "update")
        data == operation.data
    IN  IF IsError(first) THEN first
        ELSE IF operation.ref.relationship = ""
        THEN JsonApiParseError("missing-relationship-naming",
                               Pointer(TRUE, PtrIndex(idx), "ref"))
        ELSE IF data.kind = "absent" THEN MissingPrimaryData(idx)
        ELSE IF data.kind = "null" THEN NoError
        ELSE IF ~(IsDict(data) \/ IsList(data)) THEN InvalidPrimaryDataType(idx)
        ELSE IF IsDict(data) THEN check_resource_identifier_object(idx, data, "update")
        ELSE FirstError([k \in 1..Len(data.items) |->
                            check_resource_identifier_object(idx, data.items[k], "update")])

check_update_operation(idx, operation) ==
    IF Truthy(operation.ref) THEN check_relation_update(idx, operation)
    ELSE IF ~Truthy(operation.data) THEN MissingPrimaryData(idx)
    ELSE IF ~IsDict(operation.data) THEN InvalidPrimaryDataType(idx)
    ELSE check_resource_identifier_object(idx, operation.data, operation.op)

check_remove_operation(idx, ref) ==
    IF ~Truthy(ref)
    THEN JsonApiParseError("missing-ref-attribute", Pointer(TRUE, PtrIndex(idx), ""))
    ELSE check_resource_identifier_object(idx, ref, "remove")

check_invoke_operation(idx, operation) ==
    LET ref == operation.ref
    IN  IF ~Truthy(ref)
        THEN JsonApiParseError("missing-ref-attribute", Pointer(TRUE, PtrIndex(idx), ""))
        ELSE IF ~IsDict(ref) THEN Unhandled("AttributeError", idx)
        ELSE IF ~TruthyHref(ref.href)
        THEN JsonApiParseError("missing-href-attribute", Pointer(TRUE, PtrIndex(idx), "ref"))
        ELSE IF ref.type = ""
        THEN JsonApiParseError("missing-type", Pointer(TRUE, PtrIndex(idx), "ref"))
        ELSE NoError

\* a check of the operation that does not look at href
check_operation_ignoring_href(idx, operation) ==
    LET operation_code == operation.op
    IN  IF operation_code = ""
        THEN JsonApiParseError("missing-operation-code", Pointer(TRUE, PtrIndex(idx), "op"))
        ELSE IF operation_code = OP_ADD THEN check_add_operation(idx, operation.data)
        ELSE IF operation_code = OP_REMOVE THEN check_remove_operation(idx, operation.ref)
        ELSE IF operation_code = OP_UPDATE THEN check_update_operation(idx, operation)
        ELSE IF operation_code = OP_INVOKE THEN check_invoke_operation(idx, operation)
        ELSE JsonApiParseError("unknown-operation-code", Pointer(TRUE, PtrIndex(idx), "op"))

check_operation(idx, operation) ==
    LET operation_code == operation.op
    IN  IF operation_code = ""
        THEN JsonApiParseError("missing-operation-code", Pointer(TRUE, PtrIndex(idx), "op"))
        ELSE IF TruthyHref(operation.href) /\ operation_code # OP_INVOKE
        THEN JsonApiParseError("not-implemented", Pointer(TRUE, PtrIndex(idx), "href"))
        ELSE IF operation_code = OP_ADD THEN check_add_operation(idx, operation.data)
        ELSE IF operation_code = OP_REMOVE THEN check_remove_operation(idx, operation.ref)
        ELSE IF operation_code = OP_UPDATE THEN check_update_operation(idx, operation)
        ELSE IF operation_code = OP_INVOKE THEN check_invoke_operation(idx, operation)
        ELSE JsonApiParseError("unknown-operation-code", Pointer(TRUE, PtrIndex(idx), "op"))

\* the resource types of the model; a type whose name starts with "bulk" is a
\* bulk operation type (str.startswith in is_bulk_operation_type)
Types == {"articles", "bulkTags", "people"}
StartsWithBulk == {"bulkTags"}

is_bulk_operation_type(resource_type) ==
    resource_type # "" /\ resource_type \in StartsWithBulk

\* {"id": ...} if the key is there, "type" always, "lid" if truthy
parse_id_lid_and_type(resource_identifier_object) ==
    Ident(resource_identifier_object.type, resource_identifier_object.id,
          resource_identifier_object.lid)

\* rest_framework_json_api JSONParser.parse_relationships: the data of a
\* relationship is kept when it is an object, a list or null
parse_relationships(rel) ==
    IF rel.kind \in {"obj", "list", "null"} THEN rel ELSE Absent

\* the flat dict of id/type/lid, the attributes and the relationships;
\* relationship names the key the relationship data is stored under
parse_operation(resource_identifier_object, relationship) ==
    LET ids == parse_id_lid_and_type(resource_identifier_object)
        rel == parse_relationships(resource_identifier_object.rel)
    IN  [ids EXCEPT !.attributes = resource_identifier_object.attributes,
                    !.rel = rel,
                    !.relationship = IF rel.kind = "absent" THEN "" ELSE relationship]

\* the error parse_operation_metadata raises, NoError when it returns
parse_operation_metadata_error(resource_identifier_object, metadata) ==
    LET idx == IF resource_identifier_object.id # 0
               THEN PtrId(resource_identifier_object.id)
               ELSE IF resource_identifier_object.lid # ""
               THEN PtrLid(resource_identifier_object.lid)
               ELSE PtrNone
    IN  IF ~Truthy(metadata) THEN NoError
        ELSE IF metadata.kind # "meta"
        THEN JsonApiParseError("invalid-operation-meta-object", Pointer(FALSE, idx, "meta"))
        ELSE IF metadata.include.kind \notin {"absent", "list"}
        THEN JsonApiParseError("invalid-operation-include-value",
                               Pointer(FALSE, idx, "meta/include"))
        ELSE NoError

\* what parse_operation_metadata returns: {} or {"meta": metadata}
parse_operation_metadata(resource_identifier_object, metadata) ==
    IF ~Truthy(metadata) THEN Absent ELSE metadata

Parsed(code, obj) == [err |-> NoError, code |-> code, obj |-> obj]
Failed(e) == [err |-> e, code |-> "", obj |-> EmptyObj]

\* one iteration of the loop of parse_data: the parsed operation {code: obj},
\* or the error the iteration raises
parse_data_operation(idx, operation) ==
    LET checked == check_operation(idx, operation)
        meta == operation.meta
        op_code == operation.op
    IN  IF IsError(checked) THEN Failed(checked)
        ELSE IF op_code = OP_UPDATE /\ Truthy(operation.ref)
        THEN LET ref == [operation.ref EXCEPT !.rel = operation.data]
                 e == parse_operation_metadata_error(operation.ref, meta)
             IN  IF IsError(e) THEN Failed(e)
                 ELSE Parsed(OP_UPDATE_RELATIONSHIP,
                             [parse_operation(ref, operation.ref.relationship)
                                 EXCEPT !.meta = parse_operation_metadata(ref, meta)])
        ELSE IF op_code = OP_INVOKE
        THEN LET ref == operation.ref
                 data == IF operation.data.kind = "absent" THEN EmptyObj ELSE operation.data
                 e == parse_operation_metadata_error(ref, meta)
             IN  IF data.kind = "null" THEN Failed(Unhandled("TypeError", idx))
                 ELSE IF IsError(e) THEN Failed(e)
                 ELSE Parsed(OP_INVOKE,
                             [EmptyObj EXCEPT
                                 !.type = ref.type,
                                 !.href = ref.href,
                                 !.data = IF IsDict(data) /\ (data.attributes # ""
                                                              \/ data.rel.kind # "absent")
                                          THEN parse_operation(data, "author")
                                          ELSE data,
                                 !.meta = parse_operation_metadata(ref, meta)])
        ELSE LET data == IF operation.data.kind # "absent" THEN operation.data
                         ELSE operation.ref
                 e == parse_operation_metadata_error(data, meta)
             IN  \* the bulk operation branch and the standard branch do the same
                 IF ~IsDict(data) THEN Failed(Unhandled("AttributeError", idx))
                 ELSE IF IsError(e) THEN Failed(e)
                 ELSE Parsed(op_code,
                             [parse_operation(data, "author")
                                 EXCEPT !.meta = parse_operation_metadata(data, meta)])

\* the received document: a dict holding the operations list, or one check_root rejects
Document(ops) == [kind |-> "document", ops |-> ops]
NotADict == [kind |-> "scalar", ops |-> <<>>]
NoOperationsKey == [kind |-> "no-key", ops |-> <<>>]
OperationsNotAList == [kind |-> "not-a-list", ops |-> <<>>]

check_root(result) ==
    IF result.kind \in {"scalar", "no-key"}
    THEN JsonApiParseError("missing-operation-objects", Pointer(TRUE, PtrNone, ""))
    ELSE IF result.kind = "not-a-list"
    THEN JsonApiParseError("invalid-operation-objects", Pointer(TRUE, PtrNone, ""))
    ELSE NoError

\* the least index whose iteration raises, 0 when none does
FirstFailing(results) ==
    IF \E i \in 1..Len(results) : IsError(results[i].err)
    THEN CHOOSE i \in 1..Len(results) :
            /\ IsError(results[i].err)
            /\ \A j \in 1..(i - 1) : ~IsError(results[j].err)
    ELSE 0

\* a parser that hands the operations over as soon as the first one is found well formed
parse_data_checking_first_only(result) ==
    LET root == check_root(result)
        each == [i \in 1..Len(result.ops) |-> parse_data_operation(i - 1, result.ops[i])]
        bad == IF Len(each) > 0 /\ IsError(each[1].err) THEN 1 ELSE 0
    IN  IF IsError(root) THEN [err |-> root, ops |-> <<>>]
        ELSE IF bad # 0 THEN [err |-> each[bad].err, ops |-> <<>>]
        ELSE [err |-> NoError,
              ops |-> [i \in 1..Len(each) |-> [code |-> each[i].code, obj |-> each[i].obj]]]

\* parse_data: the list of parsed operations, or the first error raised.  The
\* operations are indexed from 0 in the code and from 1 in the sequences here.
parse_data(result) ==
    LET root == check_root(result)
        each == [i \in 1..Len(result.ops) |-> parse_data_operation(i - 1, result.ops[i])]
        bad == FirstFailing(each)
    IN  IF IsError(root) THEN [err |-> root, ops |-> <<>>]
        ELSE IF bad # 0 THEN [err |-> each[bad].err, ops |-> <<>>]
        ELSE [err |-> NoError,
              ops |-> [i \in 1..Len(each) |-> [code |-> each[i].code, obj |-> each[i].obj]]]

\* ------------------------------------------------------------------ the resource handlers
\* The serializers and their models are supplied by the application.  The model
\* gives every serializer a model of its resource type, rows
\* [type, id, title, author], and one validation rule: the attributes "bad"
\* are rejected.
Row(type, id, title, author) == [type |-> type, id |-> id, title |-> title, author |-> author]
NoRow == Row("", 0, "", 0)
Key(row) == <<row.type, row.id>>

\* the serializer_classes of the view: "<code>:<type>" and "invoke:<type>/<action>"
SerializerKey(code, type, action) == [code |-> code, type |-> type, action |-> action]

serializer_classes ==
    {SerializerKey(OP_ADD, "articles", ""), SerializerKey(OP_UPDATE, "articles", ""),
     SerializerKey(OP_REMOVE, "articles", ""), SerializerKey(OP_INVOKE, "articles", "publish"),
     SerializerKey(OP_ADD, "bulkTags", ""),
     SerializerKey(OP_ADD, "people", ""), SerializerKey(OP_UPDATE, "people", ""),
     SerializerKey(OP_INVOKE, "people", "publish")}

\* the class registered under each key; the classes of the people are built on
\* AtomicOperationIncludedResourcesValidationMixin
serializer_class_of(key) ==
    IF key.type = "people" THEN "PersonSerializer" ELSE "PlainSerializer"

IncludeValidating == {"PersonSerializer"}

\* getattr(serializer_class, "included_serializers", None): the included
\* serializers of a class by field name; a class outside the domain has none
included_serializers ==
    [class \in {"PersonSerializer", "CompanySerializer"} |->
        IF class = "PersonSerializer"
        THEN [name \in {"employer", "co_author"} |->
                 IF name = "employer" THEN "CompanySerializer" ELSE "PlainSerializer"]
        ELSE [name \in {"owner"} |-> "PersonSerializer"]]

\* serializer.is_valid
is_valid(data) == IsDict(data) /\ data.attributes # "bad"

ValidationError(idx) ==
    [id |-> "invalid", status |-> 400, pointer |-> Pointer(TRUE, PtrIndex(idx), "data")]

\* what serializer.save writes for an add
created_row(data, pk) ==
    Row(data.type, pk, data.attributes, IF IsDict(data.rel) THEN data.rel.id ELSE 0)

\* what serializer.save writes for a (partial) update of instance
updated_row(instance, data) ==
    [instance EXCEPT
        !.title = IF data.attributes # "" THEN data.attributes ELSE @,
        !.author = IF data.rel.kind = "absent" THEN @
                   ELSE IF IsDict(data.rel) THEN data.rel.id ELSE 0]

\* the name the serializers of a type give the attribute of their rows: the
\* articles have a title, the bulkTags a status
attribute_name(type) == IF type = "bulkTags" THEN "status" ELSE "title"

\* serializer.data: the representation of a row; title is the value of its
\* attribute and status its `status` member ("" for None); idx is the index of the
\* operation the entry stems from (kept to state the order of the entries) and
\* request_data the `data` argument its serializer was built with
\* (serializer._kwargs.get("data"), None when it was built from an instance)
Entry(idx, row, request_data) ==
    [idx |-> idx, type |-> row.type, id |-> row.id, title |-> row.title,
     status |-> IF attribute_name(row.type) = "status" THEN row.title ELSE "",
     request_data |-> request_data]

\* ------------------------------------------------------------------ views.py
\* the dict of dicts `lid_to_id`: defaultdict(dict), a function on every type
\* key whose values map lids to ids
TypeKeys == Types \cup {""}
EmptyDict == [l \in {} |-> 0]
EmptyRegistry == [t \in TypeKeys |-> EmptyDict]

Known(registry, type, lid) ==
    type \in DOMAIN registry /\ lid \in DOMAIN registry[type]

Put(dict, k, v) == [x \in DOMAIN dict \cup {k} |-> IF x = k THEN v ELSE dict[x]]

\* href.rstrip('/'): the trailing empty segments go, the first segment stays
RECURSIVE rstrip(_)
rstrip(href) ==
    IF Len(href) > 1 /\ href[Len(href)] = ""
    THEN rstrip(SubSeq(href, 1, Len(href) - 1))
    ELSE href

\* an action that is the last segment as it stands, the empty one after a
\* trailing slash included
extract_action_from_href_keeping_slash(href) == href[Len(href)]

extract_action_from_href(href) ==
    LET parts == rstrip(href) IN parts[Len(parts)]

get_serializer_class_key(operation_code, resource_type, href) ==
    IF operation_code = OP_INVOKE /\ TruthyHref(href)
    THEN SerializerKey(operation_code, resource_type, extract_action_from_href(href))
    ELSE SerializerKey(operation_code, resource_type, "")

\* the state one iteration of perform_operations works on: the writes of the
\* open transaction, the registry, the response buffer, the database sequence;
\* err is the exception raised, failed_at the index of the operation it is about,
\* applied the indices of the operations whose effect has been written
Env(written, deleted, registry, owner, response, pk) ==
    [written |-> written, deleted |-> deleted, lid_to_id |-> registry, lid_owner |-> owner,
     response_data |-> response, next_pk |-> pk, applied |-> {},
     err |-> NoError, failed_at |-> -1]

Raise(env, e, idx) == [env EXCEPT !.err = e, !.failed_at = idx]

\* the rows the transaction sees: the committed rows under its own writes
View(committed, env) ==
    {row \in committed :
        Key(row) \notin env.deleted /\ \A w \in env.written : Key(w) # Key(row)}
    \cup env.written

Write(env, row) ==
    [env EXCEPT !.written = {w \in @ : Key(w) # Key(row)} \cup {row},
                !.deleted = @ \ {Key(row)}]

Delete(env, row) ==
    [env EXCEPT !.written = {w \in @ : Key(w) # Key(row)},
                !.deleted = @ \cup {Key(row)}]

\* a serializer: an instance of the class found in serializer_classes under key
Serializer(key, idx, code, data, instance) ==
    [class |-> key, idx |-> idx, code |-> code, data |-> data, instance |-> instance]

\* ------------------------------------------------------------------ serializers.py
\* rest_framework.exceptions.ParseError, raised while operation idx is handled
ParseError(idx) ==
    [id |-> "parse_error", status |-> 400, pointer |-> Pointer(FALSE, PtrIndex(idx), "")]

\* None, as f"{operation_code}:{resource_type}" prints it
None == "None"

\* str.split("."): the segments of the include names of the model
split(included_field_name) ==
    CASE included_field_name = "employer.owner" -> <<"employer", "owner">>
      [] included_field_name = "employer.staff" -> <<"employer", "staff">>
      [] included_field_name = "coAuthor.employer" -> <<"coAuthor", "employer">>
      [] included_field_name = "employer.owner.coAuthor" -> <<"employer", "owner", "coAuthor">>
      [] OTHER -> <<included_field_name>>

\* inflection.underscore on the segments of the model
underscore(word) == IF word = "coAuthor" THEN "co_author" ELSE word

\* validate_path: TRUE when it raises ParseError
RECURSIVE validate_path(_, _, _)
validate_path(serializer_class, field_path, path) ==
    IF serializer_class \notin DOMAIN included_serializers THEN TRUE
    ELSE LET serializers == included_serializers[serializer_class]
             this_field_name == underscore(field_path[1])
         IN  IF this_field_name \notin DOMAIN serializers THEN TRUE
             ELSE IF Len(field_path) > 1
             THEN validate_path(serializers[this_field_name], Tail(field_path), path)
             ELSE FALSE

\* get_serializer_context: request, format and view
get_serializer_context == [request |-> "request", format |-> None, view |-> "view"]

\* context.get(name)
context_get(context, name) == IF name \in DOMAIN context THEN context[name] ELSE None

\* view.kwargs: the URL of the endpoint has no parameters
view_kwargs == {}

\* the body of the loop over the include list: the exception raised for one name
\* of the list, NoError when it passes
validate_included(idx, view, operation_code, resource_type, included_field_name) ==
    LET key == get_serializer_class_key(operation_code, resource_type, <<>>)
    IN  IF "related_field" \in view_kwargs THEN Unhandled("AttributeError", idx)
        ELSE IF key \notin serializer_classes THEN Unhandled("ImproperlyConfigured", idx)
        ELSE IF validate_path(serializer_class_of(key), split(included_field_name),
                              included_field_name)
        THEN ParseError(idx)
        ELSE NoError

\* request_data.get("meta", {}).get("include", []) if request_data else []
meta_include(request_data) ==
    IF ~Truthy(request_data) THEN <<>>
    ELSE IF request_data.meta.kind = "meta" /\ request_data.meta.include.kind = "list"
    THEN request_data.meta.include.items
    ELSE <<>>

\* AtomicOperationIncludedResourcesValidationMixin.__init__: the exception it
\* raises for the serializer of operation idx, NoError when it raises none
mixin_init(idx, request_data, context) ==
    IF context_get(context, "request") # None /\ context_get(context, "view") # None
    THEN FirstError([k \in 1..Len(meta_include(request_data)) |->
                        validate_included(idx, context_get(context, "view"),
                                          context_get(context, "operation_code"),
                                          context_get(context, "resource_type"),
                                          meta_include(request_data)[k])])
    ELSE NoError

\* serializer_class(*args, **kwargs): the serializer, or the exception the
\* constructor of a class built on the mixin raises
construct(key, idx, code, data, instance) ==
    LET e == IF serializer_class_of(key) \in IncludeValidating
             THEN mixin_init(idx, data, get_serializer_context)
             ELSE NoError
    IN  IF IsError(e)
        THEN [err |-> e, serializer |-> NoRow]
        ELSE [err |-> NoError, serializer |-> Serializer(key, idx, code, data, instance)]

\* ------------------------------------------------------------------ views.py (get_serializer)
\* a lookup whose miss is reported as a validation error of the operation
get_serializer_reporting_invalid(committed, env, idx, data, operation_code, resource_type, href) ==
    LET key == get_serializer_class_key(operation_code, resource_type, href)
        found == {row \in View(committed, env) :
                     row.type = resource_type /\ row.id = data.id}
    IN  IF key \notin serializer_classes
        THEN [err |-> Unhandled("ImproperlyConfigured", idx), serializer |-> NoRow]
        ELSE IF operation_code \in {OP_UPDATE, OP_REMOVE}
        THEN IF ~IsDict(data) \/ data.id = 0
             THEN [err |-> Unhandled("KeyError", idx), serializer |-> NoRow]
             ELSE IF found = {}
             THEN [err |-> ValidationError(idx), serializer |-> NoRow]
             ELSE construct(key, idx, operation_code, data, CHOOSE row \in found : TRUE)
        ELSE construct(key, idx, operation_code, data, NoRow)

\* get_serializer: the serializer, or the exception raised
get_serializer(committed, env, idx, data, operation_code, resource_type, href) ==
    LET key == get_serializer_class_key(operation_code, resource_type, href)
        found == {row \in View(committed, env) :
                     row.type = resource_type /\ row.id = data.id}
    IN  IF key \notin serializer_classes
        THEN [err |-> Unhandled("ImproperlyConfigured", idx), serializer |-> NoRow]
        ELSE IF operation_code \in {OP_UPDATE, OP_REMOVE}
        THEN IF ~IsDict(data) \/ data.id = 0
             THEN [err |-> Unhandled("KeyError", idx), serializer |-> NoRow]
             ELSE IF found = {}
             THEN [err |-> UnprocessableEntity("object-does-not-exist", idx, "data/id"),
                   serializer |-> NoRow]
             ELSE construct(key, idx, operation_code, data, CHOOSE row \in found : TRUE)
        ELSE construct(key, idx, operation_code, data, NoRow)

\* a handler that appends the representation after a relationship update too
records_entry_always(operation_code) == TRUE

\* an add, update or relationship update appends its representation unless it
\* is a relationship update

records_entry(operation_code) == operation_code # OP_UPDATE_RELATIONSHIP

\* a handler that registers the lid member of every add, the missing one too
registers_lid_of_every_add(operation_code, lid) == operation_code = OP_ADD

\* `if operation_code == OP_ADD and lid`
registers_lid(operation_code, lid) == operation_code = OP_ADD /\ lid # ""

\* handle_sequential: validate, save or delete, register the lid of an add,
\* append the representation
handle_sequential(env, r, serializer, operation_code) ==
    LET data == serializer.data
        idx == serializer.idx
        pk == env.next_pk
    IN  IF operation_code \in {OP_ADD, OP_UPDATE, OP_UPDATE_RELATIONSHIP}
        THEN IF ~is_valid(data) THEN Raise(env, ValidationError(idx), idx)
             ELSE IF operation_code = OP_ADD /\ is_bulk_operation_type(data.type)
             THEN [Write(env, created_row(data, pk)) EXCEPT
                      !.next_pk = pk + 1,
                      !.applied = @ \cup {idx},
                      !.response_data = Append(@, Entry(idx, created_row(data, pk), data))]
             ELSE IF operation_code = OP_ADD
             THEN [Write(env, created_row(data, pk)) EXCEPT
                      !.next_pk = pk + 1,
                      !.applied = @ \cup {idx},
                      !.lid_to_id = IF registers_lid(operation_code, data.lid)
                                    THEN [@ EXCEPT ![data.type] = Put(@, data.lid, pk)]
                                    ELSE @,
                      !.lid_owner = IF registers_lid(operation_code, data.lid)
                                    THEN [@ EXCEPT ![data.type] = Put(@, data.lid, r)]
                                    ELSE @,
                      !.response_data = Append(@, Entry(idx, created_row(data, pk), data))]
             ELSE LET row == updated_row(serializer.instance, data)
                  IN  [Write(env, row) EXCEPT
                          !.applied = @ \cup {idx},
                          !.response_data = IF records_entry(operation_code)
                                            THEN Append(@, Entry(idx, row, data)) ELSE @]
        ELSE IF operation_code = OP_REMOVE
        THEN [Delete(env, serializer.instance) EXCEPT !.applied = @ \cup {idx}]
        ELSE IF operation_code = OP_INVOKE
        THEN IF ~is_valid(data) THEN Raise(env, ValidationError(idx), idx)
             ELSE [env EXCEPT !.applied = @ \cup {idx},
                              !.response_data = Append(@, Entry(idx, NoRow, data))]
        ELSE env

\* perform_bulk_create: validate every serializer of the run in order, insert the
\* rows in one bulk_create, then append their representations
RECURSIVE bulk_rows(_, _)
bulk_rows(collection, pk) ==
    IF collection = <<>> THEN <<>>
    ELSE <<created_row(Head(collection).data, pk)>> \o bulk_rows(Tail(collection), pk + 1)

\* a bulk create that saves the members of the run one by one, up to the first
\* that is invalid
perform_bulk_create_saving_each(env, collection) ==
    LET invalid == {k \in 1..Len(collection) : ~is_valid(collection[k].data)}
        first == CHOOSE k \in invalid : \A j \in invalid : k <= j
        valid == IF invalid = {} THEN collection ELSE SubSeq(collection, 1, first - 1)
        objs == bulk_rows(valid, env.next_pk)
        saved == [env EXCEPT
                     !.written = {w \in @ : \A k \in 1..Len(objs) : Key(w) # Key(objs[k])}
                                 \cup {objs[k] : k \in 1..Len(objs)},
                     !.next_pk = @ + Len(objs),
                     !.applied = @ \cup {valid[k].idx : k \in 1..Len(valid)},
                     !.response_data = @ \o [k \in 1..Len(objs) |->
                                                Entry(valid[k].idx, objs[k], Absent)]]
    IN  IF invalid # {}
        THEN Raise(saved, ValidationError(collection[first].idx), collection[first].idx)
        ELSE saved

perform_bulk_create(env, collection) ==
    LET invalid == {k \in 1..Len(collection) : ~is_valid(collection[k].data)}
        first == CHOOSE k \in invalid : \A j \in invalid : k <= j
        objs == bulk_rows(collection, env.next_pk)
    IN  IF invalid # {}
        THEN Raise(env, ValidationError(collection[first].idx), collection[first].idx)
        ELSE [env EXCEPT
                !.written = {w \in @ : \A k \in 1..Len(objs) : Key(w) # Key(objs[k])}
                            \cup {objs[k] : k \in 1..Len(objs)},
                !.next_pk = @ + Len(objs),
                !.applied = @ \cup {collection[k].idx : k \in 1..Len(collection)},
                !.response_data = @ \o [k \in 1..Len(objs) |->
                                           Entry(collection[k].idx, objs[k], Absent)]]

\* perform_bulk_delete: append the representation of every instance of the run,
\* then delete them with one filtered delete
perform_bulk_delete(env, collection) ==
    LET keys == {Key(collection[k].instance) : k \in 1..Len(collection)}
    IN  [env EXCEPT
            !.written = {w \in @ : Key(w) \notin keys},
            !.deleted = @ \cup keys,
            !.applied = @ \cup {collection[k].idx : k \in 1..Len(collection)},
            !.response_data = @ \o [k \in 1..Len(collection) |->
                                       Entry(collection[k].idx, collection[k].instance, collection[k].data)]]

\* serializer.initial_data["type"] raises when the dict has no such key: a parsed
\* resource always has it, the raw data of an invoke only when it came with one
has_type_key(data) ==
    IsDict(data) /\ (data.type # "" \/ data.attributes # "" \/ data.rel.kind # "absent")

BulkData(collection, code, type) ==
    [serializer_collection |-> collection, next_operation_code |-> code,
     next_resource_type |-> type]

\* handle_bulk: [env, collection], the serializer joins the run and the run is
\* executed when the next operation does not continue it
handle_bulk(env, r, serializer, current_operation_code, bulk_operation_data) ==
    LET collection == Append(bulk_operation_data.serializer_collection, serializer)
        same_code == bulk_operation_data.next_operation_code = current_operation_code
    IN  IF same_code /\ ~has_type_key(serializer.data)
        THEN [env |-> Raise(env, Unhandled("KeyError", serializer.idx), serializer.idx),
              collection |-> collection]
        ELSE IF ~same_code \/ bulk_operation_data.next_resource_type # serializer.data.type
        THEN [env |-> IF current_operation_code = "add"
                      THEN perform_bulk_create(env, collection)
                      ELSE IF current_operation_code = "delete"
                      THEN perform_bulk_delete(env, collection)
                      ELSE handle_sequential(env, r, collection[1], current_operation_code),
              collection |-> <<>>]
        ELSE [env |-> env, collection |-> collection]

\* substitute_lids: [err, data, used]; data is the dict after the pass, err says
\* that unknown-lid was raised, used holds the (type, lid) entries read
NoSubstitution(value) == [err |-> FALSE, data |-> value, used |-> {}]

RECURSIVE substitute_lids(_, _, _)
substitute_lids(data, registry, should_raise_unknown_lid_error) ==
    IF ~IsDict(data) THEN NoSubstitution(data)
    ELSE
    LET hit == data.lid # "" /\ Known(registry, data.type, data.lid)
        miss == data.lid # "" /\ ~hit
        own == IF hit THEN [data EXCEPT !.id = registry[data.type][data.lid]] ELSE data
        \* the values of the dict: a dict is walked, the dicts of a list are walked
        value(v) ==
            IF IsDict(v) THEN substitute_lids(v, registry, TRUE)
            ELSE IF IsList(v)
            THEN LET each == [k \in 1..Len(v.items) |->
                                 substitute_lids(v.items[k], registry, TRUE)]
                 IN  [err |-> \E k \in 1..Len(each) : each[k].err,
                      data |-> List([k \in 1..Len(each) |-> each[k].data]),
                      used |-> UNION {each[k].used : k \in 1..Len(each)}]
            ELSE NoSubstitution(v)
        rel == value(own.rel)
        inner == value(own.data)
    IN  [err |-> (miss /\ should_raise_unknown_lid_error) \/ rel.err \/ inner.err,
         data |-> [own EXCEPT !.rel = rel.data, !.data = inner.data],
         used |-> (IF hit THEN {<<data.type, data.lid>>} ELSE {})
                  \cup rel.used \cup inner.used]

\* ------------------------------------------------------------------ state
Requests == {1, 2}

VARIABLES
    sequential,          \* the class attribute `sequential` of the view
    store,               \* the committed rows of the database
    next_pk,             \* the database sequence of primary keys
    lid_to_id,           \* the class attribute `lid_to_id`, one dict for every view instance
    lid_owner,           \* history: the request that wrote each entry of lid_to_id
    request,             \* request[r]: the document request r came with
    pc,                  \* pc[r]: idle, received, iterating, committed, aborted, rejected,
                         \* rendered
    parsed_operations,   \* parsed_operations[r]: request.data
    idx,                 \* idx[r]: the index the loop of perform_operations is at
    response_data,       \* response_data[r]: self.response_data
    serializer_collection, \* serializer_collection[r]: the run bulk mode has buffered
    txn,                 \* txn[r]: the writes of the open transaction
    error,               \* error[r]: the exception that ended request r
    status,              \* status[r]: the status of the response
    trace,               \* trace[r]: history of the walk
    rendered_content     \* rendered_content[r]: the body render returned

vars == <<sequential, store, next_pk, lid_to_id, lid_owner, request, pc,
          parsed_operations, idx, response_data, serializer_collection, txn,
          error, status, trace, rendered_content>>

\* one article, written by author 7
InitStore == {Row("articles", 1, "T0", 7)}

NoTxn == [written |-> {}, deleted |-> {}]

\* a rendered body: its top-level key and the members of the list under it
Body(key, entries) == [key |-> key, entries |-> entries]
NotRendered == Body("", <<>>)

\* opened: atomic() was entered; resolved, dispatched: the indices substitute_lids
\* resp. a handle_ method was called for; handlers: the key of the serializer class
\* each dispatched index was given; applied: the indices whose effect was
\* written; failed_at: the index of the operation whose failure ended the walk
\* and raised_at the index the loop was at; at: the index of the latest iteration
\* and visible: the keys of the rows the transaction held, registry: lid_to_id, when that iteration
\* began; commits: how often the transaction committed; foreign: a registry entry written by another request was read, and
\* concurrent: it was read while that request was still walking its operations
NoTrace ==
    [opened |-> FALSE, resolved |-> {}, dispatched |-> {}, handlers |-> {}, applied |-> {},
     failed_at |-> -1, raised_at |-> -1, at |-> -1, visible |-> {},
     registry |-> EmptyRegistry, commits |-> 0,
     foreign |-> FALSE, concurrent |-> FALSE]

Init ==
    /\ sequential \in BOOLEAN
    /\ store = InitStore
    /\ next_pk = 2
    /\ lid_to_id = EmptyRegistry
    /\ lid_owner = EmptyRegistry
    /\ request = [r \in Requests |-> Document(<<>>)]
    /\ pc = [r \in Requests |-> "idle"]
    /\ parsed_operations = [r \in Requests |-> <<>>]
    /\ idx = [r \in Requests |-> 0]
    /\ response_data = [r \in Requests |-> <<>>]
    /\ serializer_collection = [r \in Requests |-> <<>>]
    /\ txn = [r \in Requests |-> NoTxn]
    /\ error = [r \in Requests |-> NoError]
    /\ status = [r \in Requests |-> 0]
    /\ trace = [r \in Requests |-> NoTrace]
    /\ rendered_content = [r \in Requests |-> NotRendered]

\* ------------------------------------------------------------------ actions
\* a request arrives with one of the documents
Receive(r, documents) ==
    /\ pc[r] = "idle"
    /\ \E document \in documents : request' = [request EXCEPT ![r] = document]
    /\ pc' = [pc EXCEPT ![r] = "received"]
    /\ UNCHANGED <<sequential, store, next_pk, lid_to_id, lid_owner, parsed_operations,
                   idx, response_data, serializer_collection, txn, error, status, trace,
                   rendered_content>>

\* post: request.data runs the parser; perform_operations resets the response
\* buffer and the bulk data and enters atomic()
post(r) ==
    /\ pc[r] = "received"
    /\ LET parsed == parse_data(request[r])
       IN  IF IsError(parsed.err)
           THEN /\ pc' = [pc EXCEPT ![r] = "rejected"]
                /\ error' = [error EXCEPT ![r] = parsed.err]
                /\ status' = [status EXCEPT ![r] = parsed.err.status]
                /\ UNCHANGED <<parsed_operations, response_data, serializer_collection,
                               txn, trace>>
           ELSE /\ pc' = [pc EXCEPT ![r] = "iterating"]
                /\ parsed_operations' = [parsed_operations EXCEPT ![r] = parsed.ops]
                /\ response_data' = [response_data EXCEPT ![r] = <<>>]
                /\ serializer_collection' = [serializer_collection EXCEPT ![r] = <<>>]
                /\ txn' = [txn EXCEPT ![r] = NoTxn]
                /\ trace' = [trace EXCEPT ![r].opened = TRUE]
                /\ UNCHANGED <<error, status>>
    /\ UNCHANGED <<sequential, store, next_pk, lid_to_id, lid_owner, request, idx,
                   rendered_content>>

\* a walk that goes on after an iteration has raised
after_iteration_swallowing(err) == "iterating"

\* where the walk goes after an iteration that ended with err: an exception
\* leaves the loop and atomic()

after_iteration(err) == IF IsError(err) THEN "aborted" ELSE "iterating"

\* one iteration of the loop of perform_operations, as [env, obj, collection,
\* resolved, dispatched, used, handlers]
iteration(r) ==
    LET i == idx[r]
        operation == parsed_operations[r][i + 1]
        operation_code == operation.code
        substituted == substitute_lids(operation.obj, lid_to_id, operation_code # OP_ADD)
        obj == substituted.data
        href == IF operation_code = OP_INVOKE THEN obj.href ELSE <<>>
        serializer_data == IF operation_code = OP_INVOKE THEN obj.data ELSE obj
        effective_operation_code ==
            IF operation_code = OP_UPDATE_RELATIONSHIP THEN OP_UPDATE ELSE operation_code
        env == Env(txn[r].written, txn[r].deleted, lid_to_id, lid_owner,
                   response_data[r], next_pk)
        got == get_serializer(store, env, i, serializer_data, effective_operation_code,
                              obj.type, href)
        is_last_iter == Len(parsed_operations[r]) = i + 1
        next_operation == parsed_operations[r][i + 2]
        bulk_operation_data ==
            IF is_last_iter THEN BulkData(serializer_collection[r], "", "")
            ELSE BulkData(serializer_collection[r], next_operation.code,
                          next_operation.obj.type)
        bulk == handle_bulk(env, r, got.serializer, operation_code, bulk_operation_data)
    IN  IF substituted.err
        THEN [env |-> Raise(env, UnprocessableEntity("unknown-lid", i, "data/lid"), i),
              obj |-> operation.obj, collection |-> serializer_collection[r],
              resolved |-> TRUE, dispatched |-> FALSE, used |-> {}, handlers |-> {}]
        ELSE IF IsError(got.err)
        THEN [env |-> Raise(env, got.err, i), obj |-> obj,
              collection |-> serializer_collection[r],
              resolved |-> TRUE, dispatched |-> FALSE, used |-> substituted.used,
              handlers |-> {}]
        ELSE IF sequential
        THEN [env |-> handle_sequential(env, r, got.serializer, operation_code), obj |-> obj,
              collection |-> serializer_collection[r],
              resolved |-> TRUE, dispatched |-> TRUE, used |-> substituted.used,
              handlers |-> {<<i, got.serializer.class>>}]
        ELSE [env |-> bulk.env, obj |-> obj, collection |-> bulk.collection,
              resolved |-> TRUE, dispatched |-> TRUE, used |-> substituted.used,
              handlers |-> {<<i, got.serializer.class>>}]

\* what the iteration `it` leaves behind: the trace, and either the exception
\* with the transaction rolled back or the state the handler built
leave_iteration(r, it) ==
    LET i == idx[r]
        env == it.env
        failed == IsError(env.err)
    IN  /\ pc' = [pc EXCEPT ![r] = after_iteration(env.err)]
        /\ parsed_operations' = [parsed_operations EXCEPT ![r][i + 1].obj = it.obj]
        /\ trace' = [trace EXCEPT
               ![r].resolved = IF it.resolved THEN @ \cup {i} ELSE @,
               ![r].dispatched = IF it.dispatched THEN @ \cup {i} ELSE @,
               ![r].handlers = @ \cup it.handlers,
               ![r].applied = @ \cup env.applied,
               ![r].failed_at = IF failed /\ @ = -1 THEN env.failed_at ELSE @,
               ![r].raised_at = IF failed /\ @ = -1 THEN i ELSE @,
               ![r].at = i,
               ![r].visible = {Key(row) : row \in View(store, txn[r])},
               ![r].registry = lid_to_id,
               ![r].foreign = @ \/ \E u \in it.used : lid_owner[u[1]][u[2]] # r,
               ![r].concurrent = @ \/ \E u \in it.used :
                                         /\ lid_owner[u[1]][u[2]] # r
                                         /\ pc[lid_owner[u[1]][u[2]]] = "iterating"]
        /\ IF failed
           THEN /\ error' = [error EXCEPT ![r] = IF IsError(@) THEN @ ELSE env.err]
                /\ status' = [status EXCEPT ![r] = env.err.status]
                /\ txn' = [txn EXCEPT ![r] = NoTxn]
                /\ idx' = [idx EXCEPT ![r] = IF pc'[r] = "aborted" THEN @ ELSE @ + 1]
                /\ UNCHANGED <<lid_to_id, lid_owner, next_pk, response_data,
                               serializer_collection>>
           ELSE /\ txn' = [txn EXCEPT ![r] = [written |-> env.written,
                                               deleted |-> env.deleted]]
                /\ lid_to_id' = env.lid_to_id
                /\ lid_owner' = env.lid_owner
                /\ next_pk' = env.next_pk
                /\ response_data' = [response_data EXCEPT ![r] = env.response_data]
                /\ serializer_collection' =
                       [serializer_collection EXCEPT ![r] = it.collection]
                /\ idx' = [idx EXCEPT ![r] = @ + 1]
                /\ UNCHANGED <<error, status>>

\* the loop body; an exception leaves atomic(), which rolls the transaction back
perform_operation(r) ==
    /\ pc[r] = "iterating"
    /\ idx[r] < Len(parsed_operations[r])
    /\ leave_iteration(r, iteration(r))
    /\ UNCHANGED <<sequential, store, request, rendered_content>>

\* a response that is 200 whatever the buffer holds
response_status_always_ok(data) == 200

\* status.HTTP_200_OK if self.response_data else status.HTTP_204_NO_CONTENT
response_status(data) == IF data # <<>> THEN 200 ELSE 204

\* the list is exhausted: atomic() commits and the response is returned
finish(r) ==
    /\ pc[r] = "iterating"
    /\ idx[r] = Len(parsed_operations[r])
    /\ store' = View(store, txn[r])
    /\ txn' = [txn EXCEPT ![r] = NoTxn]
    /\ pc' = [pc EXCEPT ![r] = "committed"]
    /\ status' = [status EXCEPT ![r] = response_status(response_data[r])]
    /\ trace' = [trace EXCEPT ![r].commits = @ + 1]
    /\ UNCHANGED <<sequential, next_pk, lid_to_id, lid_owner, request, parsed_operations,
                   idx, response_data, serializer_collection, error, rendered_content>>

\* the include parameter of the query string of the request, which the JSON:API
\* renderer hands to extract_included as included_resources: "?include=comments"
query_include == <<"comments">>

\* op_data.get("meta", {}).get("include", [])
own_include(op_data) ==
    IF op_data.meta.kind = "meta" /\ op_data.meta.include.kind = "list"
    THEN op_data.meta.include.items
    ELSE <<>>

\* extract_included: the include list handed on to JSONRenderer.extract_included
extract_included(op_data, included_resources) ==
    IF Truthy(op_data) THEN own_include(op_data) ELSE included_resources

\* int(status): the number a value converts to, NotAnInt where int raises (for
\* None, the value of get("status") on a representation without that member,
\* and for a string that is no numeral)
NotAnInt == -1
int(value) == IF value = "404" THEN 404 ELSE NotAnInt

\* check_error: truthy (the error rendering) when the representation has a
\* status member that converts to a number in 400..600
check_error(operation_result_data) ==
    LET number == int(operation_result_data.status)
    IN  number # NotAnInt /\ number >= 400 /\ number <= 600

\* the rendering of one result, with the include list it was given
rendered_primary_data(operation_result_data) ==
    [idx |-> operation_result_data.idx, id |-> operation_result_data.id,
     included |-> extract_included(operation_result_data.request_data, query_include)]

\* AtomicResultRenderer.render: the error document of the first result check_error
\* fires on, else one rendered entry for each result under "atomic:results"
render(data) ==
    LET erroneous == {k \in 1..Len(data) : check_error(data[k])}
        first == CHOOSE k \in erroneous : \A m \in erroneous : k <= m
    IN  IF erroneous # {}
        THEN Body("errors", <<rendered_primary_data(data[first])>>)
        ELSE Body(ATOMIC_RESULTS, [k \in 1..Len(data) |-> rendered_primary_data(data[k])])

\* the response of a committed batch is rendered
Render(r) ==
    /\ pc[r] = "committed"
    /\ pc' = [pc EXCEPT ![r] = "rendered"]
    /\ rendered_content' = [rendered_content EXCEPT ![r] = render(response_data[r])]
    /\ UNCHANGED <<sequential, store, next_pk, lid_to_id, lid_owner, request,
                   parsed_operations, idx, response_data, serializer_collection, txn,
                   error, status, trace>>

\* ------------------------------------------------------------------ requests
RawOp(op, href, ref, data, meta) ==
    [op |-> op, href |-> href, ref |-> ref, data |-> data, meta |-> meta]

Resource(type, id, lid, attributes, rel) == Obj(type, id, lid, "", <<>>, attributes, rel)

AddOp(data) == RawOp("add", <<>>, Absent, data, Absent)
UpdateOp(data) == RawOp("update", <<>>, Absent, data, Absent)
RemoveOp(ref) == RawOp("remove", <<>>, ref, Absent, Absent)
RelationOp(ref, data) == RawOp("update", <<>>, ref, data, Absent)
InvokeOp(ref, data) == RawOp("invoke", <<>>, ref, data, Absent)

\* "/articles/publish"
PublishHref == <<"", "articles", "publish">>

AddWithLid == AddOp(Resource("articles", 0, "a", "T1", Absent))
AddInvalid == AddOp(Resource("articles", 0, "", "bad", Absent))
AddReferring == AddOp(Resource("articles", 0, "", "T1", Ident("articles", 0, "a")))
AddBulkType == AddOp(Resource("bulkTags", 0, "a", "T1", Absent))
UpdateById == UpdateOp(Resource("articles", 1, "", "T1", Absent))
UpdateByIdAgain == UpdateOp(Resource("articles", 1, "", "T2", Absent))
UpdateByLid == UpdateOp(Resource("articles", 0, "a", "T2", Absent))
UpdateInvalid == UpdateOp(Resource("articles", 1, "", "bad", Absent))
RemoveById == RemoveOp(Ident("articles", 1, ""))
RemoveByLid == RemoveOp(Ident("articles", 0, "a"))
ClearRelation == RelationOp(Obj("articles", 1, "", "author", <<>>, "", Absent), Null)
Publish ==
    InvokeOp(Obj("articles", 0, "", "", PublishHref, "", Absent),
             Resource("articles", 0, "", "T1", Absent))
UpdateWithoutId == UpdateOp(Resource("articles", 0, "", "T1", Absent))
RemoveWithHref == [RemoveById EXCEPT !.href = PublishHref]

\* the operations the requests of Spec are made of
MainOperations ==
    {AddWithLid, AddInvalid, AddReferring, AddBulkType, UpdateById, UpdateByIdAgain,
     UpdateByLid, UpdateInvalid, RemoveById, RemoveByLid, ClearRelation, Publish, UpdateWithoutId,
     RemoveWithHref}

SeqsUpTo(S, n) == UNION {[1..k -> S] : k \in 0..n}

MainDocuments ==
    {Document(ops) : ops \in SeqsUpTo(MainOperations, MaxOps)}
    \cup {NotADict, NoOperationsKey, OperationsNotAList}

\* the operations of the requests of SpecRuns: runs of Removes and of relationship
\* updates on two rows, the second of which an Add of the batch creates
RemoveSecond == RemoveOp(Ident("articles", 2, ""))
SetRelation ==
    RelationOp(Obj("articles", 1, "", "author", <<>>, "", Absent), Ident("articles", 1, ""))
RelationWithoutData == RelationOp(Obj("articles", 1, "", "author", <<>>, "", Absent), Absent)

RunOperations ==
    {AddWithLid, RemoveById, RemoveSecond, SetRelation, ClearRelation, RelationWithoutData}

RunDocuments == {Document(ops) : ops \in SeqsUpTo(RunOperations, MaxRunOps)}

\* the operations of the requests of SpecRender: operations with and without a
\* meta.include of their own
IncludeAuthor == Meta(List(<<"author">>), FALSE)
AddIncluding == [AddOp(Resource("articles", 0, "", "T1", Absent)) EXCEPT !.meta = IncludeAuthor]
UpdateIncluding == [UpdateById EXCEPT !.meta = IncludeAuthor]
PublishIncluding == [Publish EXCEPT !.meta = IncludeAuthor]
PublishWithoutData ==
    [InvokeOp(Obj("articles", 0, "", "", PublishHref, "", Absent), Absent)
        EXCEPT !.meta = IncludeAuthor]

RenderOperations ==
    {AddWithLid, AddIncluding, UpdateById, UpdateIncluding, PublishIncluding,
     PublishWithoutData, RemoveById}

RenderDocuments == {Document(ops) : ops \in SeqsUpTo(RenderOperations, MaxRenderOps)}

\* the operations of the requests of SpecSubst: payloads that carry identifier
\* objects with the lids "a" (declared by the Adds ahead) and "b" (never declared)
\* in a relationship, in a list, in a list inside a list and in a nested object
IdentA == Ident("articles", 0, "a")
IdentB == Ident("articles", 0, "b")
IdentWithIdAndLid == Ident("articles", 5, "a")

NestedValues ==
    {Absent, IdentA, IdentB, IdentWithIdAndLid,
     List(<<IdentA>>), List(<<IdentB>>),
     List(<<List(<<IdentA>>)>>), List(<<List(<<IdentB>>)>>),
     Obj("articles", 1, "", "", <<>>, "", IdentA),
     Obj("articles", 1, "", "", <<>>, "", IdentB)}

SubstOperations ==
    {AddOp(Resource("articles", 0, t, "T1", n)) : t \in {"", "a", "b"}, n \in NestedValues}
    \cup {UpdateOp(Resource("articles", 1, "", "T1", n)) : n \in NestedValues}
    \cup {UpdateOp(Resource("articles", 0, t, "T2", Absent)) : t \in {"a", "b"}}
    \cup {RemoveOp(Ident("articles", 0, t)) : t \in {"a", "b"}}
    \cup {RelationOp(Obj("articles", 1, "", "author", <<>>, "", Absent), n) :
             n \in NestedValues \ {Absent}}
    \cup {InvokeOp(Obj("articles", 0, "", "", PublishHref, "", Absent),
                   Resource("articles", 0, "", "T1", n)) : n \in NestedValues}

SubstDocuments ==
    {Document([i \in 1..k |-> AddWithLid] \o <<operation>>) :
        k \in 0..MaxDeclaring, operation \in SubstOperations}

\* the operations of the requests of SpecConc
ConcOperations == {AddWithLid, AddInvalid, UpdateByLid}

ConcDocuments == {Document(ops) : ops \in SeqsUpTo(ConcOperations, MaxConcOps)}

\* the operations of the requests of SpecSelect: operations whose key has a
\* serializer class and operations whose key has none
\* "/articles/publish/" and "/articles/archive"
PublishSlashHref == <<"", "articles", "publish", "">>
ArchiveHref == <<"", "articles", "archive">>

InvokeAt(type, href) ==
    InvokeOp(Obj(type, 0, "", "", href, "", Absent), Resource(type, 0, "", "T1", Absent))

SelectOperations ==
    {AddWithLid, AddBulkType, UpdateById, UpdateByLid, RemoveById, ClearRelation, Publish,
     InvokeAt("articles", PublishSlashHref), InvokeAt("articles", ArchiveHref),
     InvokeAt("bulkTags", PublishHref),
     UpdateOp(Resource("bulkTags", 1, "", "T1", Absent)),
     RemoveOp(Ident("bulkTags", 1, "")),
     RelationOp(Obj("bulkTags", 1, "", "author", <<>>, "", Absent), Null)}

SelectDocuments == {Document(ops) : ops \in SeqsUpTo(SelectOperations, MaxSelectOps)}

\* the operations of the requests of SpecStatus: resources whose representation
\* has a status member, "404" or a text, and resources without one
AddTag(value) == AddOp(Resource("bulkTags", 0, "", value, Absent))

StatusOperations ==
    {AddWithLid, AddTag("T1"), AddTag("404"), UpdateById, RemoveById, Publish, AddInvalid}

StatusDocuments == {Document(ops) : ops \in SeqsUpTo(StatusOperations, MaxStatusOps)}

\* the operations of the requests of SpecInclude: operations on people, whose
\* serializers validate meta.include, with include lists of supported paths and
\* of paths with an unsupported segment at the first, second or third level
IncludeLists ==
    {<<name>> : name \in {"employer", "employer.owner", "coAuthor", "employer.owner.coAuthor",
                          "comments", "employer.staff", "coAuthor.employer"}}
    \cup {<<"employer", "coAuthor">>, <<"employer", "comments">>}

IncludeMetas == {Absent, Meta(List(<<>>), FALSE)} \cup {Meta(List(l), FALSE) : l \in IncludeLists}

IncludeOperations ==
    {[AddOp(Resource("people", 0, "", "T1", Absent)) EXCEPT !.meta = m] : m \in IncludeMetas}
    \cup {[UpdateOp(Resource("people", 2, "", "T2", Absent)) EXCEPT !.meta = m] :
              m \in IncludeMetas}
    \cup {[InvokeAt("people", PublishHref) EXCEPT !.meta = m] : m \in IncludeMetas}

IncludeDocuments == {Document(ops) : ops \in SeqsUpTo(IncludeOperations, MaxIncludeOps)}

\* the operations of SpecParse: every combination of the members of an operation
ParseCodes == {"", OP_ADD, OP_UPDATE, OP_REMOVE, OP_INVOKE, "replace"}
ParseHrefs == {<<>>, PublishHref}
ParseRefs ==
    {Absent} \cup
    {Obj(t, i, l, n, h, "", Absent) :
        t \in {"", "articles"}, i \in {0, 1}, l \in {"", "a"},
        n \in {"", "author"}, h \in ParseHrefs}
ParseDatas ==
    {Absent, Null, Scalar, List(<<>>), List(<<Ident("articles", 1, "")>>),
     List(<<Ident("articles", 0, "")>>)} \cup
    {Resource(t, i, l, a, Absent) :
        t \in {"", "articles"}, i \in {0, 1}, l \in {"", "a"}, a \in {"", "T1"}}
ParseMetas ==
    {Absent, Scalar, Meta(Absent, FALSE), Meta(Absent, TRUE), Meta(Scalar, FALSE),
     Meta(List(<<"author">>), FALSE), Null, List(<<>>), List(<<"author">>)}

ParseOperations ==
    {RawOp(c, h, ref, data, meta) :
        c \in ParseCodes, h \in ParseHrefs, ref \in ParseRefs, data \in ParseDatas,
        meta \in ParseMetas}

ParseDocuments == {Document(<<operation>>) : operation \in ParseOperations}

\* ------------------------------------------------------------------ specifications
\* one request, sequential or bulk mode
Next ==
    \/ Receive(1, MainDocuments)
    \/ post(1)
    \/ perform_operation(1)
    \/ finish(1)

Spec == Init /\ [][Next]_vars

\* two requests of the same view class, in any interleaving of their iterations
NextConc ==
    \E r \in Requests :
        \/ Receive(r, ConcDocuments)
        \/ post(r)
        \/ perform_operation(r)
        \/ finish(r)

SpecConc == Init /\ [][NextConc]_vars

\* one request made of Removes and relationship updates
NextRuns ==
    \/ Receive(1, RunDocuments)
    \/ post(1)
    \/ perform_operation(1)
    \/ finish(1)

SpecRuns == Init /\ [][NextRuns]_vars

\* one request whose last operation carries nested identifier objects
NextSubst ==
    \/ Receive(1, SubstDocuments)
    \/ post(1)
    \/ perform_operation(1)
    \/ finish(1)

SpecSubst == Init /\ [][NextSubst]_vars

\* one request and the rendering of its response
NextRender ==
    \/ Receive(1, RenderDocuments)
    \/ post(1)
    \/ perform_operation(1)
    \/ finish(1)
    \/ Render(1)

SpecRender == Init /\ [][NextRender]_vars

\* one request whose operations have and have not a serializer class
NextSelect ==
    \/ Receive(1, SelectDocuments)
    \/ post(1)
    \/ perform_operation(1)
    \/ finish(1)

SpecSelect == Init /\ [][NextSelect]_vars

\* one request on resources with a status attribute and the rendering of its
\* response
NextStatus ==
    \/ Receive(1, StatusDocuments)
    \/ post(1)
    \/ perform_operation(1)
    \/ finish(1)
    \/ Render(1)

SpecStatus == Init /\ [][NextStatus]_vars

\* one request on resources whose serializers validate meta.include
NextInclude ==
    \/ Receive(1, IncludeDocuments)
    \/ post(1)
    \/ perform_operation(1)
    \/ finish(1)

SpecInclude == Init /\ [][NextInclude]_vars

\* the parser on one operation of any shape
NextParse ==
    \/ Receive(1, ParseDocuments)
    \/ post(1)

SpecParse == Init /\ [][NextParse]_vars

TypeOK ==
    /\ sequential \in BOOLEAN
    /\ \A r \in Requests :
        /\ pc[r] \in {"idle", "received", "iterating", "committed", "aborted", "rejected",
                     "rendered"}
        /\ idx[r] \in 0..Len(parsed_operations[r])

\* ------------------------------------------------------------------ claims
\* the indices of the operations of request r (the code counts from 0)
Indices(r) == 0..(Len(parsed_operations[r]) - 1)
Op(r, i) == parsed_operations[r][i + 1]
Ended(r) == pc[r] \in {"committed", "aborted", "rejected"}

\* the store shows what operation i of request r asks for although the operation
\* was not applied: the row of a Remove is gone, the row of an Update has its
\* title, the row of a relationship update its author
EffectInStore(r, i) ==
    LET obj == Op(r, i).obj
        rows == {row \in store : row.type = obj.type /\ row.id = obj.id}
    IN  \/ Op(r, i).code = OP_REMOVE /\ rows = {}
        \/ /\ Op(r, i).code = OP_UPDATE
           /\ \E row \in rows : obj.attributes \in {"", row.title}
        \/ /\ Op(r, i).code = OP_UPDATE_RELATIONSHIP
           /\ \E row \in rows : row.author = IF IsDict(obj.rel) THEN obj.rel.id ELSE 0

\* C1: once the request has finished, the store holds the effect of every
\* operation of the batch (commit) or of none (rollback): a committed batch
\* misses the effect of none of its operations and a failed batch leaves the
\* store as it found it, in sequential and in bulk mode.
C1_AllOrNothing ==
    /\ pc[1] = "committed" =>
          \A i \in Indices(1) : i \in trace[1].applied \/ EffectInStore(1, i)
    /\ pc[1] \in {"aborted", "rejected"} => store = InitStore

\* the part of C1 the sequential mode keeps
C1_SequentialAllOrNothing == sequential => C1_AllOrNothing

\* operation i of request r is an Add that declares (type, lid)
Declares(r, i, type, lid) ==
    /\ Op(r, i).code = OP_ADD
    /\ Op(r, i).obj.type = type
    /\ Op(r, i).obj.lid = lid

\* the target of operation j of request r refers to (type, lid)
TargetRefers(r, j, type, lid) ==
    /\ Op(r, j).code # OP_ADD
    /\ Op(r, j).obj.type = type
    /\ Op(r, j).obj.lid = lid

\* a relationship of operation j of request r refers to (type, lid)
RelationRefers(r, j, type, lid) ==
    /\ IsDict(Op(r, j).obj.rel)
    /\ Op(r, j).obj.rel.type = type
    /\ Op(r, j).obj.rel.lid = lid

Refers(r, j, type, lid) == TargetRefers(r, j, type, lid) \/ RelationRefers(r, j, type, lid)

\* the id the Add at index i of request r was assigned: that of its response entry
AssignedIds(r, i) ==
    {response_data[r][k].id : k \in {n \in 1..Len(response_data[r]) :
                                         response_data[r][n].idx = i}}

UnknownLidAt(r, j) == error[r].id = "unknown-lid" /\ trace[r].failed_at = j

\* C2: a lid declared by a successful Add at index i is resolvable by every
\* operation at an index j > i of the batch that refers to the same (type, lid):
\* the operation does not fail with unknown-lid and its reference carries the id
\* the Add was assigned.
C2_DeclaredLidResolves ==
    \A i \in trace[1].applied, j \in trace[1].resolved :
        \A type \in Types, lid \in {"a"} :
            (i < j /\ Declares(1, i, type, lid) /\ Refers(1, j, type, lid))
            => /\ ~UnknownLidAt(1, j)
               /\ TargetRefers(1, j, type, lid) => Op(1, j).obj.id \in AssignedIds(1, i)
               /\ RelationRefers(1, j, type, lid) => Op(1, j).obj.rel.id \in AssignedIds(1, i)

\* C3: an operation at index j that refers to a (type, lid) no Add at a smaller
\* index of the same batch has declared fails with unknown-lid.
C3_UndeclaredLidFails ==
    \A r \in Requests : \A j \in trace[r].resolved :
        \A type \in Types, lid \in {"a"} :
            (Refers(r, j, type, lid) /\ ~\E i \in 0..(j - 1) : Declares(r, i, type, lid))
            => UnknownLidAt(r, j)

\* no request is walking its operations
NoneInFlight == \A r \in Requests : pc[r] # "iterating"

\* C4: the lid registry lives for one batch: no entry survives the end of the
\* request, committed or rolled back, so the registry is empty whenever no batch
\* is in flight and no batch reads an entry another batch has written.
C4_RegistryLivesOneBatch ==
    /\ NoneInFlight => lid_to_id = EmptyRegistry
    /\ \A r \in Requests : ~trace[r].foreign

\* C5: two batches processed concurrently share the store only: no operation of a
\* batch resolves a lid the other batch, still in flight, has registered, and
\* every entry of the response buffer of a batch stems from an operation of it.
C5_BatchesShareOnlyTheStore ==
    \A r \in Requests :
        /\ ~trace[r].concurrent
        /\ \A k \in 1..Len(response_data[r]) :
              response_data[r][k].idx \in trace[r].dispatched

\* the indices of the operations of request r whose code is one of codes
WithCode(r, codes) == {i \in Indices(r) : Op(r, i).code \in codes}

EntryIndices(r) == {response_data[r][k].idx : k \in 1..Len(response_data[r])}

\* the entries of the response buffer follow the input order of their operations
InInputOrder(r) ==
    \A k, m \in 1..Len(response_data[r]) :
        k < m => response_data[r][k].idx < response_data[r][m].idx

CommittedOnce(r) ==
    /\ trace[r].commits <= 1
    /\ pc[r] = "committed" <=> trace[r].commits = 1
    /\ pc[r] = "committed" =>
          /\ trace[r].dispatched = Indices(r)
          /\ ~IsError(error[r])

\* what holds of a request whose walk has raised
RolledBack(r) ==
    /\ pc[r] = "aborted"
    /\ trace[r].commits = 0
    /\ txn[r] = NoTxn
    /\ store = InitStore

StructurallyInvalid(document) ==
    \/ IsError(check_root(document))
    \/ \E i \in 1..Len(document.ops) :
          IsError(parse_data_operation(i - 1, document.ops[i]).err)

\* C8: a request with a structurally invalid operation at any index is rejected
\* before the transaction is opened and before any operation is resolved or
\* dispatched; the store and the lid registry are left as they were.
C8_InvalidRequestLeavesNoTrace ==
    (pc[1] # "idle" /\ StructurallyInvalid(request[1])) =>
        /\ pc[1] \in {"received", "rejected"}
        /\ trace[1] = NoTrace
        /\ parsed_operations[1] = <<>>
        /\ store = InitStore
        /\ lid_to_id = EmptyRegistry
        /\ next_pk = 2

\* a request whose first operation is well formed and whose second is not was rejected
C8_Witness ==
    /\ pc[1] = "rejected"
    /\ Len(request[1].ops) >= 2
    /\ ~IsError(parse_data_operation(0, request[1].ops[1]).err)
    /\ IsError(parse_data_operation(1, request[1].ops[2]).err)

\* the one operation of the request of SpecParse, once the parser has run
Checked == pc[1] \in {"rejected", "iterating"}
TheOp == request[1].ops[1]

IsRelationUpdate(operation) == operation.op = OP_UPDATE /\ Truthy(operation.ref)

\* the target of an Update, a Remove or a relationship update
Target(operation) ==
    IF operation.op = OP_REMOVE \/ IsRelationUpdate(operation)
    THEN operation.ref ELSE operation.data

\* the operation reaches the identifier check of its target
HasTarget(operation) ==
    /\ operation.op \in {OP_UPDATE, OP_REMOVE}
    /\ ~TruthyHref(operation.href)
    /\ IsDict(Target(operation))
    /\ Truthy(Target(operation))

IdentifierErrors == {"missing-id", "multiple-id-fields", "missing-type"}

\* no member of the operation other than its target can fail an identifier check
TargetOnly(operation) ==
    IsRelationUpdate(operation) =>
        operation.ref.relationship # "" /\ operation.data.kind = "null"

\* C9: the target of an Update, a Remove or a relationship update carries exactly
\* one of id and lid: with both the operation fails with multiple-id-fields,
\* with neither it fails with missing-id, with exactly one and a type it passes
\* the identifier check.
C9_ExactlyOneOfIdAndLid ==
    (Checked /\ HasTarget(TheOp)) =>
        LET has_id == Target(TheOp).id # 0
            has_lid == Target(TheOp).lid # ""
        IN  /\ (has_id /\ has_lid) => error[1].id = "multiple-id-fields"
            /\ (~has_id /\ ~has_lid) => error[1].id = "missing-id"
            /\ ((has_id # has_lid) /\ Target(TheOp).type # "" /\ TargetOnly(TheOp))
                  => error[1].id \notin IdentifierErrors

\* a relationship update whose ref carries an id and a lid was rejected
C9_Witness ==
    /\ Checked
    /\ HasTarget(TheOp)
    /\ IsRelationUpdate(TheOp)
    /\ Target(TheOp).id # 0
    /\ Target(TheOp).lid # ""
    /\ error[1].id = "multiple-id-fields"

\* C10: an operation that carries an href and whose code is not invoke fails
\* with not-implemented, whatever its other members are.
C10_HrefOnlyOnInvoke ==
    (Checked /\ TheOp.op \notin {"", OP_INVOKE} /\ TruthyHref(TheOp.href)) =>
        /\ pc[1] = "rejected"
        /\ error[1].id = "not-implemented"
        /\ error[1].pointer = Pointer(TRUE, PtrIndex(0), "href")

\* a Remove that is well formed but for its href was rejected with not-implemented
C10_Witness ==
    /\ Checked
    /\ TheOp.op = OP_REMOVE
    /\ TruthyHref(TheOp.href)
    /\ ~IsError(check_operation(0, [TheOp EXCEPT !.href = <<>>]))
    /\ error[1].id = "not-implemented"

\* the latest iteration of request r was that of an Update, a Remove or a
\* relationship update whose references were resolved and whose id names no row
\* the transaction held
LookupMissed(r) ==
    LET j == trace[r].at
    IN  /\ j # -1
        /\ Op(r, j).code \in {OP_UPDATE, OP_REMOVE, OP_UPDATE_RELATIONSHIP}
        /\ Op(r, j).obj.id # 0
        /\ ~UnknownLidAt(r, j)
        /\ <<Op(r, j).obj.type, Op(r, j).obj.id>> \notin trace[r].visible

\* C11: an Update, relationship update or Remove at index i whose resolved id
\* locates no instance fails with object-does-not-exist, status 422 and the
\* pointer /atomic:operations/<i>/data/id, not with a validation error; the batch
\* is rolled back, so that it deletes and modifies no instance.
C11_MissIsObjectDoesNotExist ==
    LookupMissed(1) =>
        /\ pc[1] = "aborted"
        /\ error[1] = UnprocessableEntity("object-does-not-exist", trace[1].at, "data/id")
        /\ error[1].pointer = Pointer(TRUE, PtrIndex(trace[1].at), "data/id")
        /\ status[1] = 422
        /\ txn[1] = NoTxn
        /\ store = InitStore

\* in bulk mode a relationship update at index 1 or 2 named a row an earlier
\* Remove of the batch had deleted
C11_Witness ==
    /\ LookupMissed(1)
    /\ ~sequential
    /\ trace[1].at >= 1
    /\ Op(1, trace[1].at).code = OP_UPDATE_RELATIONSHIP
    /\ error[1].id = "object-does-not-exist"

\* operation k (counted from 1) of the received document is a relationship update
\* that is well formed but for its data, which is absent resp. null
RelationUpdateWith(document, k, kind) ==
    /\ IsRelationUpdate(document.ops[k])
    /\ document.ops[k].data.kind = kind
    /\ ~IsError(check_operation(k - 1, [document.ops[k] EXCEPT !.data = Null]))

\* operation i of the parsed request r clears a relation
Clears(r, i) ==
    Op(r, i).code = OP_UPDATE_RELATIONSHIP /\ Op(r, i).obj.rel.kind = "null"

\* C12: a relationship update whose data key is absent fails with
\* missing-primary-data (the request is rejected at the first such operation when
\* the operations before it are well formed); the same operation with data null
\* is accepted, and when the batch commits it has been executed as a clearing of
\* the relation (the relation of its row is empty unless a later operation of the
\* batch was applied) and has appended no entry to the response list.
C12_AbsentDataFailsNullClears ==
    /\ \A k \in 1..Len(request[1].ops) :
          (/\ pc[1] \notin {"idle", "received"}
           /\ RelationUpdateWith(request[1], k, "absent")
           /\ \A n \in 1..(k - 1) : ~RelationUpdateWith(request[1], n, "absent"))
          => /\ pc[1] = "rejected"
             /\ error[1] = MissingPrimaryData(k - 1)
    /\ \A k \in 1..Len(request[1].ops) :
          (pc[1] \in {"iterating", "committed", "aborted"}
           /\ RelationUpdateWith(request[1], k, "null"))
          => Clears(1, k - 1)
    /\ pc[1] = "committed" =>
          \A i \in Indices(1) :
              Clears(1, i) => /\ i \notin EntryIndices(1)
                              /\ i \in trace[1].applied \/ EffectInStore(1, i)

C14_BulkUpdatesEachApplied ==
    (~sequential /\ pc[1] = "committed") =>
        \A i \in WithCode(1, {OP_UPDATE}) :
            i \in trace[1].applied /\ i \in EntryIndices(1)

\* C15: in bulk mode, when a batch commits, every instance a Remove of a run named
\* is gone from the store and the representation of each was recorded in the
\* response list before the delete.
C15_BulkRemoveDeletesTheRun ==
    (~sequential /\ pc[1] = "committed") =>
        \A i \in WithCode(1, {OP_REMOVE}) :
            /\ \A row \in store : Key(row) # <<Op(1, i).obj.type, Op(1, i).obj.id>>
            /\ i \in EntryIndices(1)

\* operations i and j of request r have the same code and resource type
SameKind(r, i, j) ==
    Op(r, i).code = Op(r, j).code /\ Op(r, i).obj.type = Op(r, j).obj.type

\* the last index of the run operation i of request r belongs to: the first
\* index from i on that ends the list or is followed by an operation of another
\* code or type
RunEnd(r, i) ==
    CHOOSE j \in i..(Len(parsed_operations[r]) - 1) :
        /\ j = Len(parsed_operations[r]) - 1 \/ ~SameKind(r, j, j + 1)
        /\ \A k \in i..(j - 1) : SameKind(r, k, k + 1)

\* the first index of that run
RunStart(r, i) ==
    CHOOSE j \in 0..i :
        /\ j = 0 \/ ~SameKind(r, j - 1, j)
        /\ \A k \in j..(i - 1) : SameKind(r, k, k + 1)

Buffered(r) == {serializer_collection[r][k].idx : k \in 1..Len(serializer_collection[r])}

\* C16: in bulk mode a run of Adds on one resource type is buffered until the walk
\* has passed the last member of the run (the next operation differs in code or
\* type, or the list ends) and is then inserted as a whole: an Add the walk has
\* passed is applied if and only if its run has ended, and is buffered otherwise;
\* it has a response entry if and only if it is applied, its row is then in the
\* transaction, and the entries are in input order.  If a member of the run fails
\* validation, no member of the run is inserted or recorded and the batch is
\* rolled back.
C16_AddRunFlushedAsAWhole ==
    ~sequential =>
        /\ pc[1] \in {"iterating", "committed"} =>
              /\ InInputOrder(1)
              /\ \A i \in WithCode(1, {OP_ADD}) :
                    /\ i \in trace[1].applied <=> RunEnd(1, i) < idx[1]
                    /\ i \in Buffered(1) <=> (i < idx[1] /\ idx[1] <= RunEnd(1, i))
                    /\ i \in EntryIndices(1) <=> i \in trace[1].applied
                    /\ \A id \in AssignedIds(1, i) :
                          \E row \in View(store, txn[1]) : Key(row) = <<Op(1, i).obj.type, id>>
        /\ (pc[1] = "aborted" /\ error[1].id = "invalid"
                /\ Op(1, trace[1].failed_at).code = OP_ADD) =>
              /\ \A j \in RunStart(1, trace[1].failed_at)..RunEnd(1, trace[1].failed_at) :
                    j \notin trace[1].applied /\ j \notin EntryIndices(1)
              /\ txn[1] = NoTxn
              /\ store = InitStore

\* in bulk mode the walk has just passed a run of two Adds that an operation of
\* another kind follows: both rows are inserted and both entries recorded
C16_Witness ==
    /\ ~sequential
    /\ pc[1] = "iterating"
    /\ Len(parsed_operations[1]) = 3
    /\ idx[1] = 2
    /\ Op(1, 0).code = OP_ADD
    /\ RunEnd(1, 0) = 1
    /\ trace[1].applied = {0, 1}
    /\ Len(response_data[1]) = 2

\* C17: every structural failure raised while the operations of a request are
\* validated and normalised carries a pointer /atomic:operations/<i>/<field>: it
\* starts with a slash, i is the index of the offending operation in the list
\* (0 for the one operation of the request) and a field follows; the meta
\* failures are no exception.
C17_PointerNamesTheOperation ==
    (pc[1] = "rejected" /\ error[1].status = 400) =>
        /\ error[1].pointer.lead
        /\ error[1].pointer.at = PtrIndex(0)
        /\ error[1].pointer.field # ""

\* C19: in sequential mode, at every step of the walk, the response buffer holds
\* exactly one entry for each Add, Update and Invoke the walk has passed, in the
\* input order of the operations, and none for a Remove or a relationship update.
C19_SequentialEntries ==
    (sequential /\ pc[1] \in {"iterating", "committed"}) =>
        /\ EntryIndices(1) =
               {i \in WithCode(1, {OP_ADD, OP_UPDATE, OP_INVOKE}) : i < idx[1]}
        /\ Len(response_data[1]) = Cardinality(EntryIndices(1))
        /\ InInputOrder(1)
        /\ EntryIndices(1) \cap WithCode(1, {OP_REMOVE, OP_UPDATE_RELATIONSHIP}) = {}
        /\ \A i \in Indices(1) : i < idx[1] => i \in trace[1].applied

\* in sequential mode the walk has passed a Remove or a relationship update and
\* then an Add, and is at a third operation: the buffer holds the entry of the Add
C19_Witness ==
    /\ sequential
    /\ pc[1] = "iterating"
    /\ Len(parsed_operations[1]) = 3
    /\ idx[1] = 2
    /\ Op(1, 0).code \in {OP_REMOVE, OP_UPDATE_RELATIONSHIP}
    /\ Op(1, 1).code = OP_ADD
    /\ EntryIndices(1) = {1}

\* C20: the lid registry changes only in the step in which an Add that declared a
\* lid is applied, and only in the entry of its (type, lid), which is set to the
\* id the Add was assigned; every other step (an Update, a Remove, an Invoke, a
\* relationship update, an Add without a lid, a failed Add, a failed lookup)
\* leaves every mapping as it was, and no entry is removed.
C20_RegistryChangesOnlyByAddWithLid ==
    [][lid_to_id' # lid_to_id =>
          LET i == idx[1]
          IN  /\ pc[1] = "iterating"
              /\ pc'[1] = "iterating"
              /\ i < Len(parsed_operations[1])
              /\ Op(1, i).code = OP_ADD
              /\ Op(1, i).obj.lid # ""
              /\ i \in trace'[1].applied
              /\ Len(response_data'[1]) = Len(response_data[1]) + 1
              /\ lid_to_id' =
                     [lid_to_id EXCEPT ![Op(1, i).obj.type] =
                         Put(@, Op(1, i).obj.lid,
                             response_data'[1][Len(response_data'[1])].id)]]_vars

\* the registry holds the lid of the Add at index 0 after an Update that referred
\* to it was applied and a later Add failed
C20_Witness ==
    /\ pc[1] = "aborted"
    /\ trace[1].applied = {0, 1}
    /\ Op(1, 0).code = OP_ADD
    /\ Op(1, 1).code = OP_UPDATE
    /\ Op(1, 2).code = OP_ADD
    /\ DOMAIN lid_to_id["articles"] = {"a"}
    /\ lid_to_id["articles"]["a"] = Op(1, 1).obj.id

\* C18: the include list applied when the result of an operation is rendered is
\* that operation's own meta.include, empty when it has none, whatever the code
\* of the operation is (Invoke included) and whatever the include parameter of
\* the request is.
C18_IncludeIsTheOperationsOwn ==
    pc[1] = "rendered" =>
        /\ Len(rendered_content[1].entries) = Len(response_data[1])
        /\ \A k \in 1..Len(rendered_content[1].entries) :
              rendered_content[1].entries[k].included =
                  own_include(Op(1, rendered_content[1].entries[k].idx).obj)

\* the (type, lid) pairs of the objects of a JSON value, at any depth: in the
\* members of an object, in a list, in a list inside a list
RECURSIVE LidsIn(_)
LidsIn(v) ==
    IF IsDict(v)
    THEN (IF v.lid # "" THEN {<<v.type, v.lid>>} ELSE {}) \cup LidsIn(v.rel) \cup LidsIn(v.data)
    ELSE IF IsList(v) THEN UNION {LidsIn(v.items[k]) : k \in 1..Len(v.items)}
    ELSE {}

\* those of the objects nested in the payload obj, its top level left out
NestedLids(obj) == LidsIn(obj.rel) \cup LidsIn(obj.data)

\* (type, lid) was not registered when the latest iteration of request r began
Unregistered(r, u) == ~Known(trace[r].registry, u[1], u[2])

\* C21: lid substitution exempts only the top-level target of an Add: an Add whose
\* own lid is unregistered (and whose payload holds no unregistered lid) does not
\* fail with unknown-lid, an unregistered lid on the top-level target of any other
\* operation fails with unknown-lid, and so does an unregistered lid on an object
\* nested anywhere in the payload of any operation.
C21_OnlyTheAddTargetIsExempt ==
    trace[1].at # -1 =>
        LET j == trace[1].at
            obj == Op(1, j).obj
            top == obj.lid # "" /\ Unregistered(1, <<obj.type, obj.lid>>)
            nested == \E u \in NestedLids(obj) : Unregistered(1, u)
        IN  /\ (Op(1, j).code = OP_ADD /\ ~nested) => ~UnknownLidAt(1, j)
            /\ (Op(1, j).code # OP_ADD /\ top) => UnknownLidAt(1, j)
            /\ nested => UnknownLidAt(1, j)

\* the payload of operation i of request r as the parser produced it
BeforeSubstitution(r, i) == parse_data_operation(i, request[r].ops[i + 1]).obj

\* after is pre with every object that carries a lid and no id given the id
\* registered for its (type, lid) when the latest iteration of request r began,
\* at any depth, the exempt object excepted; every object that carries an id
\* keeps it
RECURSIVE Substituted(_, _, _, _)
Substituted(r, pre, after, exempt) ==
    IF IsDict(pre)
    THEN /\ IsDict(after)
         /\ pre.id # 0 => after.id = pre.id
         /\ (pre.id = 0 /\ pre.lid # "" /\ ~exempt) =>
                /\ Known(trace[r].registry, pre.type, pre.lid)
                /\ after.id = trace[r].registry[pre.type][pre.lid]
         /\ Substituted(r, pre.rel, after.rel, FALSE)
         /\ Substituted(r, pre.data, after.data, FALSE)
    ELSE IF IsList(pre)
    THEN /\ IsList(after)
         /\ Len(after.items) = Len(pre.items)
         /\ \A k \in 1..Len(pre.items) :
               Substituted(r, pre.items[k], after.items[k], FALSE)
    ELSE after = pre

\* C22: after the substitution pass on an operation that does not fail, every
\* object of the payload that carries a lid and no id, nested in an object, in a
\* list or in a list inside a list, has its id set to the registry value of its
\* (type, lid), the top-level target of an Add excepted, and every object that
\* carried an id has kept it.
C22_EveryLidIsResolved ==
    (trace[1].at # -1 /\ trace[1].at \notin {trace[1].raised_at}) =>
        Substituted(1, BeforeSubstitution(1, trace[1].at), Op(1, trace[1].at).obj,
                    Op(1, trace[1].at).code = OP_ADD)

\* the one operation of the request is well formed but, possibly, for its meta
\* member: without it, the operation passes the parser
ReachesMetaCheck == ~IsError(parse_data_operation(0, [TheOp EXCEPT !.meta = Absent]).err)

MetaErrors == {"invalid-operation-meta-object", "invalid-operation-include-value"}

\* C23: an operation whose meta member is present and is no object fails with
\* invalid-operation-meta-object, one whose meta object has an include member
\* that is no list fails with invalid-operation-include-value, and one whose meta
\* is an object with a list include, or without include, passes the meta check.
C23_MetaIsChecked ==
    (Checked /\ ReachesMetaCheck) =>
        /\ TheOp.meta.kind \notin {"absent", "meta"} =>
              pc[1] = "rejected" /\ error[1].id = "invalid-operation-meta-object"
        /\ (TheOp.meta.kind = "meta" /\ TheOp.meta.include.kind \notin {"absent", "list"}) =>
              pc[1] = "rejected" /\ error[1].id = "invalid-operation-include-value"
        /\ (TheOp.meta.kind = "meta" /\ TheOp.meta.include.kind \in {"absent", "list"}) =>
              pc[1] = "iterating" /\ ~IsError(error[1])

\* the final path segment of an href, a trailing slash not counted
FinalSegment(href) ==
    LET last == CHOOSE k \in 1..Len(href) :
                    /\ \A m \in (k + 1)..Len(href) : href[m] = ""
                    /\ href[k] # "" \/ k = 1
    IN  href[last]

\* the key operation i of request r is to be handled under: (code, type), with
\* the action for an Invoke; the request writes a relationship update as an
\* update, so that its key is Update's
KeyOf(r, i) ==
    IF request[r].ops[i + 1].op = OP_INVOKE
    THEN SerializerKey(OP_INVOKE, Op(r, i).obj.type, FinalSegment(Op(r, i).obj.href))
    ELSE SerializerKey(request[r].ops[i + 1].op, Op(r, i).obj.type, "")

NoHandler(r) == pc[r] = "aborted" /\ error[r].id = "ImproperlyConfigured"

\* C24: every operation that is handled is handled by the serializer class
\* registered under its key, (code, type) and for an Invoke (invoke, type, final
\* segment of href, a trailing slash ignored), a relationship update under
\* Update's key; an operation whose lids resolve and whose key has no class fails
\* and the batch is rolled back, and no operation whose key has a class fails for
\* want of a handler.
C24_HandlerIsSelectedByKey ==
    /\ \A h \in trace[1].handlers : h[2] = KeyOf(1, h[1]) /\ h[2] \in serializer_classes
    /\ \A i \in trace[1].dispatched : \E h \in trace[1].handlers : h[1] = i
    /\ (trace[1].at # -1 /\ ~UnknownLidAt(1, trace[1].at)
            /\ KeyOf(1, trace[1].at) \notin serializer_classes) =>
          /\ NoHandler(1) /\ trace[1].failed_at = trace[1].at
          /\ store = InitStore /\ txn[1] = NoTxn /\ trace[1].commits = 0
          /\ trace[1].at \notin trace[1].dispatched
    /\ NoHandler(1) => KeyOf(1, trace[1].failed_at) \notin serializer_classes

\* a relationship update was handled by the class of Update, an Invoke whose
\* href ends with a slash by the publish class, and the operation after them,
\* whose key has no class, ended the batch
C24_Witness ==
    /\ NoHandler(1) /\ trace[1].failed_at = 2
    /\ Op(1, 0).code = OP_UPDATE_RELATIONSHIP
    /\ <<0, SerializerKey(OP_UPDATE, "articles", "")>> \in trace[1].handlers
    /\ Op(1, 1).obj.href = PublishSlashHref
    /\ <<1, SerializerKey(OP_INVOKE, "articles", "publish")>> \in trace[1].handlers

\* C25: the body rendered for a batch that succeeded with a non-empty response
\* buffer is the results envelope, under the key "atomic:results", with one
\* rendered entry for each buffered result, in buffer order, whatever the values
\* of the attributes of the results are (a status of 400..600 included).
C25_SuccessRendersTheResults ==
    (pc[1] = "rendered" /\ response_data[1] # <<>>) =>
        /\ rendered_content[1].key = ATOMIC_RESULTS
        /\ Len(rendered_content[1].entries) = Len(response_data[1])
        /\ \A k \in 1..Len(response_data[1]) :
              /\ rendered_content[1].entries[k].idx = response_data[1][k].idx
              /\ rendered_content[1].entries[k].id = response_data[1][k].id

\* every segment of a path names an included serializer at its nesting level
RECURSIVE Supports(_, _)
Supports(class, segments) ==
    \/ segments = <<>>
    \/ /\ class \in DOMAIN included_serializers
       /\ underscore(Head(segments)) \in DOMAIN included_serializers[class]
       /\ Supports(included_serializers[class][underscore(Head(segments))], Tail(segments))

\* the include list operation i of request r was sent with, <<>> without one
SentInclude(r, i) ==
    LET meta == request[r].ops[i + 1].meta
    IN  IF meta.kind = "meta" /\ meta.include.kind = "list" THEN meta.include.items ELSE <<>>

\* operation i of request r has a handler built on the mixin, resolves its lids
\* and, for an Update, targets a row the transaction holds
ValidatesInclude(r, i) ==
    /\ KeyOf(r, i) \in serializer_classes
    /\ serializer_class_of(KeyOf(r, i)) \in IncludeValidating
    /\ ~UnknownLidAt(r, i)
    /\ Op(r, i).code = OP_UPDATE => <<Op(r, i).obj.type, Op(r, i).obj.id>> \in trace[r].visible

\* C26: an operation with a non-empty meta.include whose handler is built on the
\* include-validation mixin is accepted if and only if every segment of every
\* dotted path of the list names an included serializer at its nesting level of
\* the handler selected for the operation: with an unsupported segment it fails
\* with a parse error, with supported paths only it does not fail.
C26_IncludeIsValidatedAgainstTheHandler ==
    LET j == trace[1].at
        include == SentInclude(1, j)
        class == serializer_class_of(KeyOf(1, j))
    IN  (j # -1 /\ include # <<>> /\ ValidatesInclude(1, j)) =>
            IF \A k \in 1..Len(include) : Supports(class, split(include[k]))
            THEN trace[1].failed_at # j
            ELSE trace[1].failed_at = j /\ error[1].id = "parse_error"

=============================================================================
